---------------------------- MODULE Spec2Model ----------------------------
(***************************************************************************)
(* A model of the two command line tools of the repository:               *)
(*   gosearch       (src/gosearch/gosearch.go): splitTarget / readNext,   *)
(*                  config.search, lookupObject, byPos, the print loop of *)
(*                  main;                                                 *)
(*   giveupthefunc  (src/giveupthefunc/giveupthefunc.go): main,           *)
(*                  allInterfaces, satisfiesInterface, byCount, objString.*)
(* Strings are sequences of one-character strings.                        *)
(***************************************************************************)
EXTENDS Integers, Sequences, FiniteSets, TLC

VARIABLES
    pc,         \* position of the running program
    err,        \* the error a function returned / main died with ("" = nil)
    \* ---- splitTarget (gosearch.go:252-278)
    arg,        \* the string handed to splitTarget
    s,          \* the unread remainder
    pkg,        \* named result pkg
    name,       \* named result name
    fields,     \* named result fields
    \* ---- the loaded program (loader.Program) and the flags
    conf,       \* gosearch: config{targetPkg, fieldName, subFields, packages, allowErrors, searchDefs}
    flags,      \* giveupthefunc: interfaceAnalysis, allowErrors, pkgs
    prog,       \* what config.Load() produced: Errors, Uses, Present
    \* ---- gosearch main
    obj,        \* the object lookupObject resolved
    idents,     \* the identifiers search returned, then sorted
    next,       \* index of the next ident the print loop handles
    stdout,     \* the positions of the lines printed so far
    \* ---- giveupthefunc main
    interfaces, \* map[types.Object]*types.Interface (its key set)
    defs,       \* map[types.Object]int
    counts,     \* []defCount after sort.Sort
    \* ---- satisfiesInterface on drawn inputs
    fn,         \* the function handed to satisfiesInterface
    ifaceDefs,  \* the interface-typed definitions the index is built from
    index,      \* the interface index handed to satisfiesInterface
    sat         \* its result

vars == <<pc, err, arg, s, pkg, name, fields, conf, flags, prog, obj, idents,
          next, stdout, interfaces, defs, counts, fn, ifaceDefs, index, sat>>

parseVars == <<arg, s, pkg, name, fields>>
toolVars == <<conf, flags, prog, obj, idents, next, stdout, interfaces, defs, counts>>
satVars == <<fn, ifaceDefs, index, sat>>

Nil == "nil"
NoObj == 0      \* the nil types.Object
NoErr == ""

(***************************************************************************)
(* Bounds of the model.                                                    *)
(***************************************************************************)
MaxLen == 7
MaxUses == 2
MaxIfaces == 2

(***************************************************************************)
(* Target path parser: readNext and splitTarget.                           *)
(***************************************************************************)
Quote == "\""
Dot == "."
Chars == {"a", "b", "c", Dot, Quote}

ErrUnmatched == "unmatched '\"'"
ErrNoTarget == "no target provided"
ErrNoField == "no package field provided"

RECURSIVE readNextIgnoreQuote(_, _, _, _)
readNextIgnoreQuote(str, i, inQuote, field) ==
    IF i > Len(str)
    THEN IF inQuote
         THEN [field |-> <<>>, rest |-> <<>>, err |-> ErrUnmatched]
         ELSE [field |-> field, rest |-> <<>>, err |-> NoErr]
    ELSE IF str[i] = Quote
         THEN readNextIgnoreQuote(str, i + 1, ~inQuote, field)
         ELSE IF str[i] = Dot
              THEN [field |-> field, rest |-> SubSeq(str, i + 1, Len(str)), err |-> NoErr]
              ELSE readNextIgnoreQuote(str, i + 1, inQuote, Append(field, str[i]))

RECURSIVE readNextKeepDot(_, _, _, _)
readNextKeepDot(str, i, inQuote, field) ==
    IF i > Len(str)
    THEN IF inQuote
         THEN [field |-> <<>>, rest |-> <<>>, err |-> ErrUnmatched]
         ELSE [field |-> field, rest |-> <<>>, err |-> NoErr]
    ELSE IF str[i] = Quote
         THEN readNextKeepDot(str, i + 1, ~inQuote, field)
         ELSE IF str[i] = Dot /\ ~inQuote
              THEN [field |-> field, rest |-> SubSeq(str, i, Len(str)), err |-> NoErr]
              ELSE readNextKeepDot(str, i + 1, inQuote, Append(field, str[i]))

RECURSIVE readNextNoEOFCheck(_, _, _, _)
readNextNoEOFCheck(str, i, inQuote, field) ==
    IF i > Len(str)
    THEN [field |-> field, rest |-> <<>>, err |-> NoErr]
    ELSE IF str[i] = Quote
         THEN readNextNoEOFCheck(str, i + 1, ~inQuote, field)
         ELSE IF str[i] = Dot /\ ~inQuote
              THEN [field |-> field, rest |-> SubSeq(str, i + 1, Len(str)), err |-> NoErr]
              ELSE readNextNoEOFCheck(str, i + 1, inQuote, Append(field, str[i]))

\* The loop of readNext: i is the reader's position, field the buffer.
RECURSIVE readNextLoop(_, _, _, _)
readNextLoop(str, i, inQuote, field) ==
    IF i > Len(str)
    THEN IF inQuote
         THEN [field |-> <<>>, rest |-> <<>>, err |-> ErrUnmatched]
         ELSE [field |-> field, rest |-> <<>>, err |-> NoErr]
    ELSE IF str[i] = Quote
         THEN readNextLoop(str, i + 1, ~inQuote, field)
         ELSE IF str[i] = Dot /\ ~inQuote
              THEN [field |-> field, rest |-> SubSeq(str, i + 1, Len(str)), err |-> NoErr]
              ELSE readNextLoop(str, i + 1, inQuote, Append(field, str[i]))

readNext(str) == readNextLoop(str, 1, FALSE, <<>>)

StringsUpTo(n) == UNION {[1..k -> Chars] : k \in 0..n}

InitParse ==
    /\ arg \in StringsUpTo(MaxLen)
    /\ s = arg
    /\ pkg = <<>> /\ name = <<>> /\ fields = <<>>
    /\ err = NoErr
    /\ pc = "readPkg"
    /\ conf = Nil /\ flags = Nil /\ prog = Nil /\ obj = NoObj /\ idents = <<>>
    /\ next = 1 /\ stdout = <<>> /\ interfaces = {} /\ defs = <<>> /\ counts = <<>>
    /\ fn = Nil /\ ifaceDefs = {} /\ index = {} /\ sat = FALSE

\* splitTarget, lines 253-259
ReadPkg ==
    /\ pc = "readPkg"
    /\ LET r == readNext(s) IN
       IF r.err # NoErr
       THEN /\ pkg' = r.field /\ s' = r.rest /\ err' = r.err /\ pc' = "returned"
       ELSE IF r.field = <<>>
            THEN /\ pkg' = <<>> /\ s' = r.rest /\ err' = ErrNoTarget /\ pc' = "returned"
            ELSE /\ pkg' = r.field /\ s' = r.rest /\ err' = NoErr /\ pc' = "readName"
    /\ UNCHANGED <<arg, name, fields>>

\* splitTarget, lines 260-266
ReadName ==
    /\ pc = "readName"
    /\ LET r == readNext(s) IN
       IF r.err # NoErr
       THEN /\ name' = r.field /\ s' = r.rest /\ err' = r.err /\ pc' = "returned"
            /\ pkg' = pkg
       ELSE IF r.field = <<>>
            THEN /\ pkg' = <<>> /\ name' = <<>> /\ s' = r.rest
                 /\ err' = ErrNoField /\ pc' = "returned"
            ELSE /\ name' = r.field /\ s' = r.rest /\ err' = NoErr /\ pc' = "readField"
                 /\ pkg' = pkg
    /\ UNCHANGED <<arg, fields>>

\* splitTarget, one iteration of the loop of lines 267-277
ReadField ==
    /\ pc = "readField"
    /\ LET r == readNext(s) IN
       IF r.err # NoErr
       THEN /\ s' = r.rest /\ err' = r.err /\ pc' = "returned" /\ fields' = fields
       ELSE IF r.field = <<>>
            THEN /\ s' = r.rest /\ err' = NoErr /\ pc' = "returned" /\ fields' = fields
            ELSE /\ s' = r.rest /\ err' = NoErr /\ pc' = "readField"
                 /\ fields' = Append(fields, r.field)
    /\ UNCHANGED <<arg, pkg, name>>

NextParse ==
    \/ /\ ReadPkg /\ UNCHANGED <<toolVars, satVars>>
    \/ /\ ReadName /\ UNCHANGED <<toolVars, satVars>>
    \/ /\ ReadField /\ UNCHANGED <<toolVars, satVars>>

(***************************************************************************)
(* The type-checked program the loader hands to both tools: packages,      *)
(* objects (types.Object), signatures, the Defs and Uses maps.             *)
(***************************************************************************)
Pkgs == {"p", "q"}

\* p imports q: identifiers of p may denote objects of q, not the reverse.
Imports == {<<"p", "q">>}

AllPackages(imported) ==
    imported \cup {d \in Pkgs : \E i \in imported : <<i, d>> \in Imports}

Range(f) == {f[x] : x \in DOMAIN f}

tInt == <<"i", "n", "t">>
sigVoid == [params |-> <<>>, results |-> <<>>, variadic |-> FALSE]
sigRead == [params |-> <<tInt>>, results |-> <<tInt>>, variadic |-> FALSE]
sigVar == [params |-> <<tInt>>, results |-> <<tInt>>, variadic |-> TRUE]
Sigs == {sigVoid, sigRead, sigVar}

nFoo == <<"F", "o", "o">>
nBar == <<"B", "a", "r">>
nBaz == <<"B", "a", "z">>
nBlank == <<"_">>
nT == <<"T">>
nRead == <<"R", "e", "a", "d">>
nread == <<"r", "e", "a", "d">>
nInit == <<"i", "n", "i", "t">>
nMain == <<"m", "a", "i", "n">>
nReader == <<"R", "e", "a", "d", "e", "r">>
nreader == <<"r", "e", "a", "d", "e", "r">>
nAny == <<"A", "n", "y">>

Func(pk, rcv, nm, sg) ==
    [kind |-> "func", pkg |-> pk, recv |-> rcv, name |-> nm, sig |-> sg,
     underlying |-> "signature", methods |-> {}]

TypeName(pk, nm, under, ms) ==
    [kind |-> "type", pkg |-> pk, recv |-> <<>>, name |-> nm, sig |-> sigVoid,
     underlying |-> under, methods |-> ms]

\* The objects a loaded program may hold.  Two declarations named Foo in
\* different packages, two functions declared with the blank name, methods
\* of a struct type T, and three interface types with their methods.
Universe == <<
    Func("p", <<>>, nFoo, sigVoid),
    Func("p", <<>>, nBar, sigVoid),
    Func("p", <<>>, nBlank, sigVoid),
    Func("p", <<>>, nBlank, sigVoid),
    Func("p", nT, nRead, sigRead),
    Func("p", nT, nread, sigRead),
    Func("p", nT, nInit, sigRead),
    Func("q", <<>>, nFoo, sigVoid),
    TypeName("p", nT, "struct", {}),
    TypeName("q", nReader, "interface", {sigRead}),
    TypeName("p", nreader, "interface", {sigRead}),
    TypeName("q", nAny, "interface", {}),
    Func("q", nReader, nRead, sigRead),
    Func("p", nreader, nRead, sigRead) >>

Objs == DOMAIN Universe
Attr(o) == Universe[o]

IfaceTypes == {o \in Objs : Attr(o).underlying = "interface"}

\* the method objects an interface type declares
MethodsOf(t) ==
    {o \in Objs : Attr(o).kind = "func" /\ Attr(o).pkg = Attr(t).pkg
                  /\ Attr(o).recv = Attr(t).name}

BaseObjs == {o \in Objs : o \notin IfaceTypes
                          /\ \A t \in IfaceTypes : o \notin MethodsOf(t)}

\* the objects an identifier of a well-typed program can denote
UseObjs == {o \in BaseObjs : Attr(o).name # nBlank /\ Attr(o).name # nInit}

ValidUses ==
    {[owner |-> pk, obj |-> o] : pk \in Pkgs, o \in UseObjs} \cap
    {u \in [owner : Pkgs, obj : Objs] :
        u.owner = Attr(u.obj).pkg \/ <<u.owner, Attr(u.obj).pkg>> \in Imports}

\* the programs that declare the interface types of one of the sets in TS
Programs(TS) ==
    {[Errors |-> e, Uses |-> u, Present |-> BaseObjs \cup ts \cup UNION {MethodsOf(t) : t \in ts}] :
        e \in SUBSET Pkgs, u \in [1..MaxUses -> ValidUses], ts \in TS}

\* token.Pos of the identifiers: every identifier has its own position
DefPos(o) == o
PkgClausePos(pk) == Len(Universe) + (IF pk = "p" THEN 1 ELSE 2)
UsePos(i) == Len(Universe) + 2 + i

\* info.Defs of a package: the defining identifiers, and the package clause
\* identifier, which Defs maps to nil
Defs(pk) ==
    {[kind |-> "def", owner |-> pk, pos |-> DefPos(o), obj |-> o] :
        o \in {x \in prog.Present : Attr(x).pkg = pk}}
    \cup {[kind |-> "def", owner |-> pk, pos |-> PkgClausePos(pk), obj |-> NoObj]}

\* info.Uses of a package
Uses(pk) ==
    {[kind |-> "use", owner |-> pk, pos |-> UsePos(i), obj |-> prog.Uses[i].obj] :
        i \in {x \in DOMAIN prog.Uses : prog.Uses[x].owner = pk}}

HasErrors(pk) == pk \in prog.Errors

\* ast.IsExported / Object.Exported: the name starts with an upper case letter
UpperCase == {"A", "B", "C", "D", "E", "F", "G", "H", "I", "J", "K", "L", "M",
              "N", "O", "P", "Q", "R", "S", "T", "U", "V", "W", "X", "Y", "Z"}
Exported(nm) == nm # <<>> /\ nm[1] \in UpperCase

\* types.Identical on two signatures: receivers and names are ignored
Identical(a, b) ==
    /\ a.variadic = b.variadic
    /\ Len(a.params) = Len(b.params)
    /\ \A i \in 1..Len(a.params) : a.params[i] = b.params[i]
    /\ Len(a.results) = Len(b.results)
    /\ \A i \in 1..Len(a.results) : a.results[i] = b.results[i]

(***************************************************************************)
(* Strings of objects: Object.String(), Func.FullName(), string order.     *)
(***************************************************************************)
\* the characters of the strings below, in ASCII order
Ascii == <<" ", "(", ")", ",", ".", "A", "B", "C", "D", "E", "F", "G", "H", "I",
           "J", "K", "L", "M", "N", "O", "P", "Q", "R", "S", "T", "U", "V",
           "W", "X", "Y", "Z", "_", "a", "b", "c", "d", "e", "f", "g", "h",
           "i", "j", "k", "l", "m", "n", "o", "p", "q", "r", "s", "t", "u",
           "v", "w", "x", "y", "z">>
Code == [c \in Range(Ascii) |-> CHOOSE i \in DOMAIN Ascii : Ascii[i] = c]

\* the < of Go strings: byte-wise lexicographic, a proper prefix is smaller
RECURSIVE StrLess(_, _)
StrLess(a, b) ==
    IF b = <<>> THEN FALSE
    ELSE IF a = <<>> THEN TRUE
    ELSE IF a[1] # b[1] THEN Code[a[1]] < Code[b[1]]
    ELSE StrLess(Tail(a), Tail(b))

RECURSIVE TupleString(_, _)
TupleString(ts, variadic) ==
    IF ts = <<>> THEN <<>>
    ELSE IF Len(ts) = 1
         THEN (IF variadic THEN <<".", ".", ".">> ELSE <<>>) \o ts[1]
         ELSE ts[1] \o <<",", " ">> \o TupleString(Tail(ts), variadic)

\* the text of a signature after the func keyword: "(int) int"
SigString(sg) ==
    <<"(">> \o TupleString(sg.params, sg.variadic) \o <<")">>
    \o (IF sg.results = <<>> THEN <<>> ELSE <<" ">> \o TupleString(sg.results, FALSE))

\* Func.FullName(): "(p.T).Read" for a method, "p.Foo" for a function
FullName(o) ==
    IF Attr(o).recv # <<>>
    THEN <<"(">> \o <<Attr(o).pkg>> \o <<".">> \o Attr(o).recv \o <<")", ".">> \o Attr(o).name
    ELSE <<Attr(o).pkg>> \o <<".">> \o Attr(o).name

\* Object.String(): "func (p.T).Read(int) int", "type p.T"
String(o) ==
    IF Attr(o).kind = "func"
    THEN <<"f", "u", "n", "c", " ">> \o FullName(o) \o SigString(Attr(o).sig)
    ELSE <<"t", "y", "p", "e", " ">> \o FullName(o)

objString(o) == IF Attr(o).kind = "func" THEN FullName(o) ELSE String(o)

RECURSIVE Perms(_)
Perms(S) ==
    IF S = {} THEN {<<>>}
    ELSE UNION {{<<x>> \o t : t \in Perms(S \ {x})} : x \in S}

(***************************************************************************)
(* gosearch: main, config.search, lookupObject, byPos, printLine.          *)
(***************************************************************************)
\* what splitTarget can hand to main: package, name, fields
Targets ==
    {[targetPkg |-> "p", fieldName |-> nFoo, subFields |-> <<>>],
     [targetPkg |-> "q", fieldName |-> nFoo, subFields |-> <<>>],
     [targetPkg |-> "p", fieldName |-> nBaz, subFields |-> <<>>],
     [targetPkg |-> "p", fieldName |-> nT, subFields |-> <<nRead>>],
     [targetPkg |-> "p", fieldName |-> nFoo, subFields |-> <<nRead>>]}

PackageLists == {<<"p">>, <<"q">>, <<"p", "q">>}

Configs ==
    {[targetPkg |-> t.targetPkg, fieldName |-> t.fieldName, subFields |-> t.subFields,
      packages |-> ps, allowErrors |-> a, searchDefs |-> d] :
        t \in Targets, ps \in PackageLists, a \in BOOLEAN, d \in BOOLEAN}

\* the packages config.Load() loads for this run of gosearch
Loaded == AllPackages({conf.targetPkg} \cup Range(conf.packages))

\* pkg.Scope().Lookup(name)
ScopeLookup(pk, nm) ==
    LET found == {o \in prog.Present : Attr(o).pkg = pk /\ Attr(o).recv = <<>>
                                       /\ Attr(o).name = nm /\ nm # nBlank}
    IN IF found = {} THEN NoObj ELSE CHOOSE o \in found : TRUE

\* types.LookupFieldOrMethod(obj.Type(), true, pkg, field)
LookupFieldOrMethod(o, pk, field) ==
    LET found == {m \in prog.Present : Attr(o).kind = "type" /\ Attr(m).kind = "func"
                                       /\ Attr(m).pkg = Attr(o).pkg
                                       /\ Attr(m).recv = Attr(o).name
                                       /\ Attr(m).name = field
                                       /\ (Exported(field) \/ Attr(m).pkg = pk)}
    IN IF found = {} THEN NoObj ELSE CHOOSE m \in found : TRUE

RECURSIVE lookupFields(_, _, _)
lookupFields(o, pk, fs) ==
    IF fs = <<>> THEN [obj |-> o, err |-> NoErr]
    ELSE LET m == LookupFieldOrMethod(o, pk, fs[1]) IN
         IF m = NoObj THEN [obj |-> NoObj, err |-> "Failed to lookup field or method"]
         ELSE lookupFields(m, pk, Tail(fs))

lookupObject(pk, nm, fs) ==
    IF HasErrors(pk) THEN [obj |-> NoObj, err |-> "Package had compilation errors"]
    ELSE LET o == ScopeLookup(pk, nm) IN
         IF o = NoObj THEN [obj |-> NoObj, err |-> "Failed to find type"]
         ELSE lookupFields(o, pk, fs)

searchPkgNoSkip(pk, target) ==
    {ident \in (IF conf.searchDefs THEN Defs(pk) ELSE Uses(pk)) : ident.obj = target}

searchPkgByName(pk, target) ==
    IF HasErrors(pk) THEN {}
    ELSE {ident \in (IF conf.searchDefs THEN Defs(pk) ELSE Uses(pk)) :
            ident.obj # NoObj /\ Attr(ident.obj).name = Attr(target).name}

\* one iteration of the loop of search over c.packages
searchPkg(pk, target) ==
    IF HasErrors(pk) THEN {}
    ELSE {ident \in (IF conf.searchDefs THEN Defs(pk) ELSE Uses(pk)) : ident.obj = target}

byPosLess(a, b) == a.pos < b.pos

\* sort.Sort(byPos(idents)): positions are distinct, the result is unique
SortByPos(seq) ==
    CHOOSE p \in Perms(Range(seq)) :
        \A i, j \in 1..Len(p) : i < j => ~byPosLess(p[j], p[i])

InitGosearch ==
    /\ conf \in Configs
    /\ prog \in Programs({IfaceTypes})
    /\ flags = Nil
    /\ obj = NoObj /\ idents = <<>> /\ next = 1 /\ stdout = <<>>
    /\ interfaces = {} /\ defs = <<>> /\ counts = <<>>
    /\ err = NoErr
    /\ pc = "gosearch.Load"

\* config.Load() in search.  With AllowErrors false the loader returns an
\* error when a loaded package has errors, and main calls fatal.
SearchLoad ==
    /\ pc = "gosearch.Load"
    /\ IF ~conf.allowErrors /\ prog.Errors \cap Loaded # {}
       THEN /\ err' = "couldn't load packages due to errors" /\ pc' = "gosearch.exit2"
       ELSE /\ err' = NoErr /\ pc' = "gosearch.lookupObject"
    /\ UNCHANGED <<conf, flags, prog, obj, idents, next, stdout, interfaces, defs, counts>>

\* lookupObject(prog.Imported[c.targetPkg], c.fieldName, c.subFields...)
SearchLookup ==
    /\ pc = "gosearch.lookupObject"
    /\ LET r == lookupObject(conf.targetPkg, conf.fieldName, conf.subFields) IN
       IF r.err # NoErr
       THEN /\ err' = r.err /\ pc' = "gosearch.exit2" /\ obj' = obj
       ELSE /\ err' = NoErr /\ pc' = "gosearch.search" /\ obj' = r.obj
    /\ UNCHANGED <<conf, flags, prog, idents, next, stdout, interfaces, defs, counts>>

\* the search loop: the matches of each listed package, each map in any order
Search ==
    /\ pc = "gosearch.search"
    /\ \E found \in Perms(UNION {searchPkg(conf.packages[k], obj) : k \in DOMAIN conf.packages}) :
          idents' = found
    /\ pc' = "gosearch.sort"
    /\ UNCHANGED <<err, conf, flags, prog, obj, next, stdout, interfaces, defs, counts>>

\* sort.Sort(byPos(idents))
SortIdents ==
    /\ pc = "gosearch.sort"
    /\ idents' = SortByPos(idents)
    /\ next' = 1
    /\ pc' = IF idents = <<>> THEN "gosearch.exit0" ELSE "gosearch.print"
    /\ UNCHANGED <<err, conf, flags, prog, obj, stdout, interfaces, defs, counts>>

\* printLine returns nil: the line is on stdout, the loop goes on
PrintLineOk ==
    /\ pc = "gosearch.print"
    /\ stdout' = Append(stdout, idents[next].pos)
    /\ next' = next + 1
    /\ pc' = IF next = Len(idents) THEN "gosearch.exit0" ELSE "gosearch.print"
    /\ UNCHANGED <<err, conf, flags, prog, obj, idents, interfaces, defs, counts>>

\* printLine returns an error (open, seek, read, identifier past the end of
\* the line): main calls fatal, which prints it and exits with status 2
PrintLineErr ==
    /\ pc = "gosearch.print"
    /\ err' = "printLine"
    /\ pc' = "gosearch.exit2"
    /\ UNCHANGED <<conf, flags, prog, obj, idents, next, stdout, interfaces, defs, counts>>

(***************************************************************************)
(* giveupthefunc: main, allInterfaces, satisfiesInterface, byCount.        *)
(***************************************************************************)
FlagSets ==
    [interfaceAnalysis : BOOLEAN, allowErrors : BOOLEAN, pkgs : {<<"p">>, <<"p", "q">>}]

\* lines 153-158: the object's underlying type is an interface with methods
indexed(d) == d.underlying = "interface" /\ d.methods # {}

\* allInterfaces(prog): the keys of the map it returns
allInterfaces ==
    {o \in prog.Present :
        /\ ~HasErrors(Attr(o).pkg)
        /\ Attr(o).pkg \in AllPackages(Range(flags.pkgs))
        /\ indexed(Attr(o))}

\* the map's entry for key o: the object's package, whether it is exported,
\* the signatures of the interface's methods
Descriptor(d) == [pkg |-> d.pkg, exported |-> Exported(d.name), methods |-> d.methods]

satisfiesInterfaceFreeFuncs(f, ifs) ==
    \E d \in ifs :
        /\ (d.pkg # Nil /\ d.pkg = f.pkg) \/ (d.exported /\ Exported(f.name))
        /\ \E m \in d.methods : Identical(f.sig, m)

satisfiesInterfaceExportedOnly(f, ifs) ==
    /\ f.recv # <<>>
    /\ \E d \in ifs :
          /\ d.exported /\ Exported(f.name)
          /\ \E m \in d.methods : Identical(f.sig, m)

satisfiesInterface(f, ifs) ==
    /\ f.recv # <<>>
    /\ \E d \in ifs :
          LET samePkg == d.pkg # Nil /\ d.pkg = f.pkg IN
          /\ ~(~samePkg /\ (~d.exported \/ ~Exported(f.name)))
          /\ \E m \in d.methods : Identical(f.sig, m)

\* the packages the loops of main do not skip
analysed == {pk \in Range(flags.pkgs) : ~(flags.allowErrors /\ HasErrors(pk))}

\* lines 74-88 for one package: the functions that become keys of defs
candidates(pk) ==
    {d.obj : d \in {x \in Defs(pk) :
        /\ x.obj # NoObj
        /\ Attr(x.obj).kind = "func"
        /\ Attr(x.obj).name \notin {nMain, nInit}
        /\ ~(flags.interfaceAnalysis
             /\ satisfiesInterface(Attr(x.obj), {Descriptor(Attr(i)) : i \in interfaces}))}}

countAllUses(o) == Cardinality(UNION {Uses(pk) : pk \in analysed})

\* lines 97-104: the number of times defs[o]++ runs
countUses(o) ==
    Cardinality({u \in UNION {Uses(pk) : pk \in analysed} : u.obj # NoObj /\ u.obj = o})

byCountLessCountOnly(a, b) == a.count < b.count

byCountLess(a, b) ==
    IF a.count # b.count THEN a.count < b.count
    ELSE StrLess(String(a.obj), String(b.obj))

\* the results sort.Sort(byCount(counts)) can leave, whatever order the map
\* iteration filled counts in: every arrangement with no pair out of order
RECURSIVE Sorted(_)
Sorted(S) ==
    IF S = {} THEN {<<>>}
    ELSE UNION {{<<m>> \o t : t \in Sorted(S \ {m})} :
                m \in {x \in S : \A y \in S : ~byCountLess(y, x)}}

InitGiveupthefunc ==
    /\ flags \in FlagSets
    /\ prog \in Programs(SUBSET IfaceTypes)
    /\ conf = Nil
    /\ obj = NoObj /\ idents = <<>> /\ next = 1 /\ stdout = <<>>
    /\ interfaces = {} /\ defs = <<>> /\ counts = <<>>
    /\ err = NoErr
    /\ pc = "giveupthefunc.Load"

\* lines 50-61: config.Load().  With AllowErrors false the loader returns an
\* error when a loaded package has errors, and main calls fatal.
RankLoad ==
    /\ pc = "giveupthefunc.Load"
    /\ IF ~flags.allowErrors /\ prog.Errors \cap AllPackages(Range(flags.pkgs)) # {}
       THEN /\ err' = "couldn't load packages due to errors" /\ pc' = "giveupthefunc.exit2"
       ELSE /\ err' = NoErr /\ pc' = "giveupthefunc.interfaces"
    /\ UNCHANGED <<conf, flags, prog, obj, idents, next, stdout, interfaces, defs, counts>>

\* lines 63-66
RankInterfaces ==
    /\ pc = "giveupthefunc.interfaces"
    /\ interfaces' = IF flags.interfaceAnalysis THEN allInterfaces ELSE {}
    /\ pc' = "giveupthefunc.defs"
    /\ UNCHANGED <<err, conf, flags, prog, obj, idents, next, stdout, defs, counts>>

\* lines 68-89
RankDefs ==
    /\ pc = "giveupthefunc.defs"
    /\ defs' = [o \in UNION {candidates(pk) : pk \in analysed} |-> 0]
    /\ pc' = "giveupthefunc.count"
    /\ UNCHANGED <<err, conf, flags, prog, obj, idents, next, stdout, interfaces, counts>>

\* lines 91-105
RankCount ==
    /\ pc = "giveupthefunc.count"
    /\ defs' = [o \in DOMAIN defs |-> defs[o] + countUses(o)]
    /\ pc' = "giveupthefunc.sort"
    /\ UNCHANGED <<err, conf, flags, prog, obj, idents, next, stdout, interfaces, counts>>

\* lines 106-112
RankSort ==
    /\ pc = "giveupthefunc.sort"
    /\ counts' \in Sorted({[obj |-> o, count |-> defs[o]] : o \in DOMAIN defs})
    /\ pc' = "giveupthefunc.print"
    /\ UNCHANGED <<err, conf, flags, prog, obj, idents, next, stdout, interfaces, defs>>

\* lines 113-115
RankPrint ==
    /\ pc = "giveupthefunc.print"
    /\ stdout' = [i \in DOMAIN counts |-> <<counts[i].count, objString(counts[i].obj)>>]
    /\ pc' = "giveupthefunc.exit0"
    /\ UNCHANGED <<err, conf, flags, prog, obj, idents, next, interfaces, defs, counts>>

(***************************************************************************)
(* satisfiesInterface on inputs drawn from the whole attribute space.      *)
(***************************************************************************)
FuncAttrs ==
    {Func(pk, rcv, nm, sg) : pk \in Pkgs, rcv \in {<<>>, nT}, nm \in {nRead, nread}, sg \in Sigs}

IfaceAttrs ==
    {TypeName(pk, nm, "interface", ms) :
        pk \in Pkgs, nm \in {nReader, nreader}, ms \in SUBSET Sigs}

\* the sets of at most MaxIfaces interface-typed definitions
IfaceDefSets == UNION {{Range(f) : f \in [1..k -> IfaceAttrs]} : k \in 0..MaxIfaces}

InitSat ==
    /\ fn \in FuncAttrs
    /\ ifaceDefs \in IfaceDefSets
    /\ index = {}
    /\ sat = FALSE
    /\ err = NoErr
    /\ pc = "allInterfaces"
    /\ arg = <<>> /\ s = <<>> /\ pkg = <<>> /\ name = <<>> /\ fields = <<>>
    /\ conf = Nil /\ flags = Nil /\ prog = Nil /\ obj = NoObj /\ idents = <<>>
    /\ next = 1 /\ stdout = <<>> /\ interfaces = {} /\ defs = <<>> /\ counts = <<>>

\* allInterfaces on the drawn definitions
SatIndex ==
    /\ pc = "allInterfaces"
    /\ index' = {Descriptor(d) : d \in {x \in ifaceDefs : indexed(x)}}
    /\ pc' = "satisfiesInterface"
    /\ UNCHANGED <<err, fn, ifaceDefs, sat>>

SatCall ==
    /\ pc = "satisfiesInterface"
    /\ sat' = satisfiesInterface(fn, index)
    /\ pc' = "returned"
    /\ UNCHANGED <<err, fn, ifaceDefs, index>>

(***************************************************************************)
(* Specifications.                                                         *)
(***************************************************************************)
\* the two tools on a loaded program
Init ==
    /\ \/ InitGosearch
       \/ InitGiveupthefunc
    /\ arg = <<>> /\ s = <<>> /\ pkg = <<>> /\ name = <<>> /\ fields = <<>>
    /\ fn = Nil /\ ifaceDefs = {} /\ index = {} /\ sat = FALSE

Next ==
    \/ /\ SearchLoad /\ UNCHANGED <<parseVars, satVars>>
    \/ /\ SearchLookup /\ UNCHANGED <<parseVars, satVars>>
    \/ /\ Search /\ UNCHANGED <<parseVars, satVars>>
    \/ /\ SortIdents /\ UNCHANGED <<parseVars, satVars>>
    \/ /\ PrintLineOk /\ UNCHANGED <<parseVars, satVars>>
    \/ /\ PrintLineErr /\ UNCHANGED <<parseVars, satVars>>
    \/ /\ RankLoad /\ UNCHANGED <<parseVars, satVars>>
    \/ /\ RankInterfaces /\ UNCHANGED <<parseVars, satVars>>
    \/ /\ RankDefs /\ UNCHANGED <<parseVars, satVars>>
    \/ /\ RankCount /\ UNCHANGED <<parseVars, satVars>>
    \/ /\ RankSort /\ UNCHANGED <<parseVars, satVars>>
    \/ /\ RankPrint /\ UNCHANGED <<parseVars, satVars>>

Spec == Init /\ [][Next]_vars

\* splitTarget on every string up to MaxLen
SpecParse == InitParse /\ [][NextParse]_vars

NextSat ==
    \/ /\ SatIndex /\ UNCHANGED <<parseVars, toolVars>>
    \/ /\ SatCall /\ UNCHANGED <<parseVars, toolVars>>

\* satisfiesInterface on every drawn function and index
SpecSat == InitSat /\ [][NextSat]_vars

(***************************************************************************)
(* Reference definitions the claims are stated with.                       *)
(***************************************************************************)
segments == <<pkg, name>> \o fields
returned == pc = "returned"

NoQuote(str) == \A i \in DOMAIN str : str[i] # Quote
OddQuotes(str) == Cardinality({i \in DOMAIN str : str[i] = Quote}) % 2 = 1

\* the dots of str that have an even number of quotes before them
UnquotedDots(str) ==
    {i \in DOMAIN str : str[i] = Dot
                        /\ Cardinality({k \in 1..(i - 1) : str[k] = Quote}) % 2 = 0}
AllDots(str) == {i \in DOMAIN str : str[i] = Dot}

\* the k-th smallest element of B
Nth(B, k) == CHOOSE b \in B : Cardinality({x \in B : x < b}) = k - 1

\* the pieces of str between the positions of B, in order
SplitAt(str, B) ==
    [k \in 1..(Cardinality(B) + 1) |->
        SubSeq(str,
               IF k = 1 THEN 1 ELSE Nth(B, k - 1) + 1,
               IF k = Cardinality(B) + 1 THEN Len(str) ELSE Nth(B, k) - 1)]

NotQuote(c) == c # Quote
Unquote(str) == SelectSeq(str, NotQuote)

\* strings.Split(str, ".")
Split(str) == SplitAt(str, AllDots(str))

\* the split at the dots outside quotes, quotes dropped
QuoteAwareSplit(str) ==
    LET P == SplitAt(str, UnquotedDots(str)) IN [k \in DOMAIN P |-> Unquote(P[k])]

\* the pieces before the first empty one
BeforeFirstEmpty(P) ==
    LET empties == {k \in DOMAIN P : P[k] = <<>>} IN
    IF empties = {} THEN P
    ELSE SubSeq(P, 1, (CHOOSE k \in empties : \A j \in empties : k <= j) - 1)

searched ==
    \/ pc \in {"gosearch.sort", "gosearch.print", "gosearch.exit0"}
    \/ pc = "gosearch.exit2" /\ err = "printLine"

\* the occurrence map search selects in a package
SelectedMap(pk) == IF conf.searchDefs THEN Defs(pk) ELSE Uses(pk)

ranked == pc \in {"giveupthefunc.sort", "giveupthefunc.print", "giveupthefunc.exit0"}
printed == pc = "giveupthefunc.exit0"

\* the Use occurrences of the analysed packages that resolve to o
UsesResolvingTo(o) ==
    {i \in DOMAIN prog.Uses :
        /\ prog.Uses[i].owner \in Range(flags.pkgs)
        /\ ~(flags.allowErrors /\ prog.Uses[i].owner \in prog.Errors)
        /\ prog.Uses[i].obj = o}

\* function and method definitions of the analysed packages, main and init apart
Tracked ==
    {o \in prog.Present :
        /\ Attr(o).kind = "func"
        /\ Attr(o).pkg \in Range(flags.pkgs)
        /\ ~(flags.allowErrors /\ Attr(o).pkg \in prog.Errors)
        /\ Attr(o).name # nMain /\ Attr(o).name # nInit}

\* interface types with methods, declared by a package that loaded without errors
LoadedInterfaces ==
    {t \in prog.Present :
        /\ Attr(t).underlying = "interface" /\ Attr(t).methods # {}
        /\ Attr(t).pkg \in AllPackages(Range(flags.pkgs))
        /\ Attr(t).pkg \notin prog.Errors}

Methods == {o \in Objs : Attr(o).kind = "func" /\ Attr(o).recv # <<>>}

Reported(o) == \E k \in DOMAIN counts : counts[k].obj = o

(***************************************************************************)
(* Claims.                                                                 *)
(***************************************************************************)

\* C1: search returns exactly the occurrences of the selected map (Defs with
\* -d, Uses otherwise) of the listed packages without load errors whose
\* object is the target itself, each once; an occurrence that resolves to
\* another object of the same name is never returned.
C1_SearchIsIdentitySensitive ==
    searched =>
        /\ Range(idents) =
              {ident \in UNION {SelectedMap(pk) : pk \in Range(conf.packages) \ prog.Errors} :
                  ident.obj = obj}
        /\ Len(idents) = Cardinality(Range(idents))
        /\ \A k \in DOMAIN idents :
              ~(idents[k].obj # obj /\ Attr(idents[k].obj).name = Attr(obj).name)

\* C1 witness: a search that returned an occurrence of the target while a
\* listed, error-free package holds an occurrence of another object with the
\* target's name.
C1_Witness ==
    /\ searched
    /\ idents # <<>>
    /\ \E pk \in Range(conf.packages) \ prog.Errors : \E ident \in SelectedMap(pk) :
          /\ ident.obj # NoObj /\ ident.obj # obj
          /\ Attr(ident.obj).name = Attr(obj).name

\* C2: a dot inside double quotes is never a segment boundary and no quote is
\* emitted: a successful parse returns the pieces between the dots outside
\* quotes, quotes dropped (up to the first empty piece), and "a.b".c parses
\* to [a.b, c].
C2_QuotedDotsAreLiteral ==
    /\ \A k \in DOMAIN segments : NoQuote(segments[k])
    /\ (returned /\ err = NoErr) =>
          segments = BeforeFirstEmpty(QuoteAwareSplit(arg))
    /\ (returned /\ arg = <<Quote, "a", Dot, "b", Quote, Dot, "c">>) =>
          /\ err = NoErr
          /\ pkg = <<"a", Dot, "b">> /\ name = <<"c">> /\ fields = <<>>

\* C2 witness: "a.b".c has been parsed.
C2_Witness ==
    /\ returned /\ err = NoErr
    /\ arg = <<Quote, "a", Dot, "b", Quote, Dot, "c">>
    /\ segments = <<<<"a", Dot, "b">>, <<"c">>>>

\* C3 as stated: every method without uses whose signature is that of a method
\* of a non-empty exported interface, of its own or of another package that
\* loaded, is absent from the ranking with -i and present with count 0
\* without it.  (Stated for the tracked methods only: a method named main or
\* init, or of a skipped package, is in no ranking.)
C3_AsStated ==
    printed =>
        \A m \in Methods \cap Tracked :
            ( /\ UsesResolvingTo(m) = {}
              /\ \E t \in LoadedInterfaces :
                    /\ Exported(Attr(t).name)
                    /\ Attr(m).sig \in Attr(t).methods )
            => IF flags.interfaceAnalysis
               THEN ~Reported(m)
               ELSE \E k \in DOMAIN stdout :
                       counts[k].obj = m /\ stdout[k] = <<0, FullName(m)>>

\* C3 amended: a tracked method (not named main or init) without uses whose
\* signature is that of a method of a non-empty interface that loaded and is
\* declared in the method's package, or is exported while the method's name
\* is exported too, is absent from the ranking with -i and present with count
\* 0 without it.
C3_SatisfiersAreExcluded ==
    printed =>
        \A m \in Methods \cap Tracked :
            ( /\ UsesResolvingTo(m) = {}
              /\ \E t \in LoadedInterfaces :
                    /\ \/ Attr(t).pkg = Attr(m).pkg
                       \/ Exported(Attr(t).name) /\ Exported(Attr(m).name)
                    /\ Attr(m).sig \in Attr(t).methods )
            => IF flags.interfaceAnalysis
               THEN ~Reported(m)
               ELSE \E k \in DOMAIN stdout :
                       counts[k].obj = m /\ stdout[k] = <<0, FullName(m)>>

\* C3 witness: giveupthefunc -i has printed a ranking without a method of T
\* that no identifier uses and that matches the exported interface of q only.
C3_Witness ==
    /\ printed /\ flags.interfaceAnalysis
    /\ \E m \in Methods \cap Tracked :
          /\ Attr(m).recv = nT
          /\ UsesResolvingTo(m) = {}
          /\ \E t \in LoadedInterfaces : Attr(t).pkg # Attr(m).pkg
          /\ \A t \in LoadedInterfaces : Attr(t).pkg # Attr(m).pkg
          /\ ~Reported(m)

\* C4: a package with load errors contributes no occurrence to the result of
\* search and no candidate to the ranking, whatever the flags.
C4_ErrorPackagesContributeNothing ==
    /\ \A k \in DOMAIN idents : idents[k].owner \notin prog.Errors
    /\ \A o \in DOMAIN defs : Attr(o).pkg \notin prog.Errors
    /\ \A k \in DOMAIN counts : Attr(counts[k].obj).pkg \notin prog.Errors

\* C4 witness: a search ended although a listed package with load errors
\* holds an occurrence of the target.
C4_Witness ==
    /\ searched
    /\ \E pk \in Range(conf.packages) \cap prog.Errors : \E ident \in SelectedMap(pk) :
          ident.obj = obj

\* C5 as stated: of two entries of the output the earlier one has the smaller
\* count, or the same count and a strictly smaller qualified name.
C5_AsStated ==
    printed =>
        \A i, j \in DOMAIN stdout :
            i < j => \/ stdout[i][1] < stdout[j][1]
                     \/ stdout[i][1] = stdout[j][1] /\ StrLess(stdout[i][2], stdout[j][2])

\* C5 amended: of two entries of the output the earlier one has the smaller
\* count, or the same count and a qualified name that is smaller or equal;
\* the lines are therefore in one order whatever order the map was read in.
C5_OutputIsOrdered ==
    /\ ranked /\ pc # "giveupthefunc.sort" =>
          /\ Len(counts) = Cardinality(DOMAIN defs)
          /\ \A o \in DOMAIN defs : Reported(o)
          /\ \A i, j \in DOMAIN counts :
                i < j => \/ counts[i].count < counts[j].count
                         \/ /\ counts[i].count = counts[j].count
                            /\ ~StrLess(FullName(counts[j].obj), FullName(counts[i].obj))
    /\ printed =>
          \A i, j \in DOMAIN stdout :
              i < j => \/ stdout[i][1] < stdout[j][1]
                       \/ /\ stdout[i][1] = stdout[j][1]
                          /\ ~StrLess(stdout[j][2], stdout[i][2])

\* C5 witness: a printed ranking with two entries of one count and different
\* names, and two of one count and one name.
C5_Witness ==
    /\ printed
    /\ \E i, j \in DOMAIN stdout :
          i < j /\ stdout[i][1] = stdout[j][1] /\ StrLess(stdout[i][2], stdout[j][2])
    /\ \E i, j \in DOMAIN stdout : i < j /\ stdout[i] = stdout[j]

\* C6 as stated: a string without quotes parses to strings.Split(s, ".").
C6_AsStated ==
    (returned /\ NoQuote(arg)) => (err = NoErr /\ segments = Split(arg))

\* C6 amended: a string without quotes parses to the pieces of
\* strings.Split(s, ".") that come before the first empty piece; with no such
\* piece the parse fails (no target), with one it fails (no package field);
\* so the result is Split(s) when s has two pieces or more and none is empty.
C6_SplitsOnDots ==
    (returned /\ NoQuote(arg)) =>
        LET P == BeforeFirstEmpty(Split(arg)) IN
        /\ Len(P) = 0 => err = ErrNoTarget
        /\ Len(P) = 1 => err = ErrNoField
        /\ Len(P) >= 2 => err = NoErr /\ segments = P
        /\ (Len(Split(arg)) >= 2 /\ \A k \in DOMAIN Split(arg) : Split(arg)[k] # <<>>) =>
              err = NoErr /\ segments = Split(arg)

\* C6 witness: a string without quotes has been parsed into package, name and
\* a field, the pieces of Split.
C6_Witness ==
    /\ returned /\ NoQuote(arg) /\ err = NoErr
    /\ Len(fields) >= 1
    /\ segments = Split(arg)

C8_RenderFailureDoesNotAbort ==
    (pc = "gosearch.exit2" /\ err = "printLine") => next >= Len(idents)

\* C9: satisfiesInterface is true exactly when the function has a receiver
\* and some indexed interface (one with methods) is declared in its package,
\* or is exported while the function's name is exported, and has a method of
\* the function's signature.
C9_SatisfiesExactly ==
    returned =>
        /\ sat <=>
              /\ fn.recv # <<>>
              /\ \E d \in ifaceDefs :
                    /\ d.methods # {}
                    /\ \/ d.pkg = fn.pkg
                       \/ Exported(d.name) /\ Exported(fn.name)
                    /\ fn.sig \in d.methods
        /\ fn.recv = <<>> => ~sat
        /\ (\A d \in ifaceDefs : d.pkg # fn.pkg /\ (~Exported(d.name) \/ ~Exported(fn.name)))
              => ~sat

\* C9 witness: a method satisfied an interface of another package, none of
\* its own package being indexed.
C9_Witness ==
    /\ returned /\ sat
    /\ ifaceDefs # {}
    /\ \A d \in ifaceDefs : d.pkg # fn.pkg

\* C10: after the counting pass the count of every tracked function is the
\* number of Use occurrences of the analysed packages that resolve to it, and
\* that is the count printed; Foo used twice and Bar never gives Bar 0 before
\* Foo 2.
C10_CountsAreUses ==
    /\ ranked =>
          /\ \A o \in DOMAIN defs : defs[o] = Cardinality(UsesResolvingTo(o))
          /\ DOMAIN defs \subseteq Tracked
          /\ ~flags.interfaceAnalysis => DOMAIN defs = Tracked
    /\ printed =>
          \A k \in DOMAIN stdout :
              stdout[k] = <<Cardinality(UsesResolvingTo(counts[k].obj)),
                            FullName(counts[k].obj)>>

\* C10 witness: the ranking printed Bar with 0 before Foo with 2.
C10_Witness ==
    /\ printed
    /\ \E i, j \in DOMAIN stdout :
          /\ i < j
          /\ stdout[i] = <<0, <<"p", ".">> \o nBar>>
          /\ stdout[j] = <<2, <<"p", ".">> \o nFoo>>

=============================================================================
